---- MODULE Spec2Model ----
(***************************************************************************)
(* Pose-to-physics installation (p5.js + Matter.js + ml5).  The repository *)
(* holds four variants of one sketch: src/sketch.js and                    *)
(* src/unnamed/part_000 .. part_002.  The variable `variant` says which    *)
(* of them is running; every handler is modelled per variant.              *)
(*                                                                         *)
(* Units.  Lengths are visual units (pixels), integers.  Confidences are   *)
(* hundredths (0.15 is 15).  Scales are hundredths (0.10 is 10).           *)
(* Velocities are tenths of a unit per tick (1.2 is 12).                   *)
(* An optional JavaScript value is a sequence of length 0 or 1:            *)
(* <<>> is undefined/null (NaN for a coordinate), <<v>> is the value v.    *)
(***************************************************************************)
EXTENDS Integers, Sequences, FiniteSets, TLC

VARIABLES
  variant,      \* which source file is running
  ml5,          \* [bodyPose, poseNet]: which constructors the ml5 global has
  width,        \* p5 canvas width
  height,       \* p5 canvas height
  video,        \* the capture element: <<>> before createCapture, else <<[w, h]>>
  setupPc,      \* position of setup(): "init", "probe", "corners", "sprites", "done"
  setupIdx,     \* index of the candidate / file the suspended setup is waiting for
  probeLog,     \* outcomes of the urlExists probes made so far, in order
  ASSET_BASE,   \* <<>> or <<index of the chosen candidate>>
  loaded,       \* loadAllAssets' local list of loaded images
  spriteImgs,   \* the image pool
  sprites,      \* the floating bodies, in creation order
  pushers,      \* <<>> before creation, else <<[left, right, nose]>>
  metaFired,    \* number of loadedmetadata events delivered so far
  starts,       \* one entry per startPose call: its position
  poseSystem,   \* "none", "bodyPose", "poseNet"
  attempts,     \* per startPose call, the backends it tested/constructed, in order
  registered,   \* [A, B]: number of result callbacks registered on each backend
  poses,        \* the latest-pose slot: <<>> (null/undefined) or <<list of poses>>
  lastResult,   \* the raw result most recently handed to a detection callback
  nDelivered,   \* results handed to a detection callback since the last tick
  cbThrew,      \* the most recent detection callback threw before writing the slot
  tickThrew,    \* some tick ended with an uncaught exception
  preBounce,    \* the bodies as the solver left them in the latest tick, before
                \* bounceOffEdges ran
  tfLog,        \* per startPose call, the compute backends it attempted, in order
  event         \* "draw" when the handler the host ran last was draw, else "other"

vars == << variant, ml5, width, height, video, setupPc, setupIdx, probeLog,
           ASSET_BASE, loaded, spriteImgs, sprites, pushers, metaFired, starts,
           poseSystem, attempts, registered, poses, lastResult, nDelivered,
           cbThrew, tickThrew, preBounce, tfLog, event >>

-----------------------------------------------------------------------------
(* Bounds of the model *)

\* CFG.spriteCount is 80 (part_000) or 25; the model builds this many bodies.
MaxSprites == 1
\* SPRITE_NAMES / SPRITE_FILES hold 10 files; the model loads this many.
MaxFiles == 2
\* loadedmetadata events the host delivers.
MaxMeta == 1
\* detection results delivered between two ticks.
MaxBurst == 2

(* Program constants *)
poseConfidence == 15
pusherRadiusHand == 70
pusherRadiusNose == 85
spriteScaleMin == 10
spriteScaleMax == 22
MinSpriteDim == 20
SpriteMargin == 60
NumCandidates == 3

Variants == {"sketch", "part_000", "part_001", "part_002"}
\* sketch.js and part_000 guard every field access of updatePushersFromPose
\* and negotiate between two backends; part_001 and part_002 do neither.
Guarded == {"sketch", "part_000"}

-----------------------------------------------------------------------------
(* Optional values *)
None == <<>>
Some(v) == <<v>>
IsSome(o) == o # <<>>
Val(o) == o[1]

Abs(n) == IF n < 0 THEN -n ELSE n
Max(a, b) == IF a >= b THEN a ELSE b

-----------------------------------------------------------------------------
(* Keypoints, poses and detection results                                   *)
(* A keypoint object is a record of optional fields; a null keypoint, a     *)
(* null pose and a null result are the empty option.                        *)

Kp(name, part, x, y, position, confidence, score) ==
  [name |-> name, part |-> part, x |-> x, y |-> y, position |-> position,
   confidence |-> confidence, score |-> score]

\* the shape backend A (ml5.bodyPose) delivers
KpA(name, x, y, conf) ==
  Kp(Some(name), None, Some(x), Some(y), None, Some(conf), None)

\* the shape backend B (ml5.poseNet) delivers
KpB(part, x, y, score) ==
  Kp(None, Some(part), None, None, Some([x |-> Some(x), y |-> Some(y)]), None, Some(score))

PoseA(kps) == [keypoints |-> Some(kps), pose |-> None]
PoseB(kps) == [keypoints |-> None, pose |-> Some([keypoints |-> Some(kps)])]

-----------------------------------------------------------------------------
(* Pose -> pushers (updatePushersFromPose)                                  *)

\* conf = kp.confidence, else kp.score, else 0
KpConf(kp) ==
  IF IsSome(kp.confidence) THEN Val(kp.confidence)
  ELSE IF IsSome(kp.score) THEN Val(kp.score) ELSE 0

\* x = kp.x, else kp.position?.x, else null
KpX(kp) ==
  IF IsSome(kp.x) THEN kp.x
  ELSE IF IsSome(kp.position) THEN Val(kp.position).x ELSE None

KpY(kp) ==
  IF IsSome(kp.y) THEN kp.y
  ELSE IF IsSome(kp.position) THEN Val(kp.position).y ELSE None

\* name = kp.name || kp.part || ""
KpName(kp) ==
  IF IsSome(kp.name) /\ Val(kp.name) # "" THEN Val(kp.name)
  ELSE IF IsSome(kp.part) /\ Val(kp.part) # "" THEN Val(kp.part) ELSE ""

\* the dispatch knowing the snake_case names only
PusherOfNameSnakeOnly(name) ==
  IF name = "left_wrist" THEN "left"
  ELSE IF name = "right_wrist" THEN "right"
  ELSE IF name = "nose" THEN "nose" ELSE ""

\* the dispatch with the two wrists exchanged
PusherOfNameCrossed(name) ==
  IF name = "left_wrist" \/ name = "leftWrist" THEN "right"
  ELSE IF name = "right_wrist" \/ name = "rightWrist" THEN "left"
  ELSE IF name = "nose" THEN "nose" ELSE ""

\* the pusher a name is dispatched to by sketch.js and part_000 ("" is none)
PusherOfName(name) ==
  IF name = "left_wrist" \/ name = "leftWrist" THEN "left"
  ELSE IF name = "right_wrist" \/ name = "rightWrist" THEN "right"
  ELSE IF name = "nose" THEN "nose" ELSE ""

\* part_001 and part_002 compare kp.name with the snake_case names only
PusherOfNameStrict(kp) ==
  IF kp.name = Some("left_wrist") THEN "left"
  ELSE IF kp.name = Some("right_wrist") THEN "right"
  ELSE IF kp.name = Some("nose") THEN "nose" ELSE ""

\* width - x; NaN when x is undefined
Mirror(w, x) == IF IsSome(x) THEN Some(w - Val(x)) ELSE None

\* setPosition putting a newly built body of the nose radius in the pusher's
\* place
SetPositionReplaces(st, p, x, y) ==
  IF st.pushers = None THEN [st EXCEPT !.threw = TRUE]
  ELSE [st EXCEPT !.pushers =
          Some([Val(st.pushers) EXCEPT ![p] = [x |-> x, y |-> y, r |-> pusherRadiusNose]])]

\* PusherBody.setPosition on the pusher called p; calling it on a pusher that
\* does not exist yet throws
SetPosition(st, p, x, y) ==
  IF st.pushers = None THEN [st EXCEPT !.threw = TRUE]
  ELSE [st EXCEPT !.pushers = Some([Val(st.pushers) EXCEPT ![p].x = x, ![p].y = y])]

\* one iteration of the loop of sketch.js / part_000
KpStepGuarded(st, k, w) ==
  IF k = None THEN st
  ELSE LET kp == Val(k) IN
    IF KpConf(kp) < poseConfidence THEN st
    ELSE IF KpX(kp) = None \/ KpY(kp) = None THEN st
    ELSE LET p == PusherOfName(KpName(kp)) IN
      IF p = "" THEN st ELSE SetPosition(st, p, Mirror(w, KpX(kp)), KpY(kp))

\* one iteration of the loop of part_001 (mirror) / part_002 (no mirror)
KpStepPlain(st, k, w, mirror) ==
  IF k = None THEN [st EXCEPT !.threw = TRUE]
  ELSE LET kp == Val(k) IN
    IF IsSome(kp.confidence) /\ Val(kp.confidence) < poseConfidence THEN st
    ELSE LET p == PusherOfNameStrict(kp) IN
      IF p = "" THEN st
      ELSE SetPosition(st, p, IF mirror THEN Mirror(w, kp.x) ELSE kp.x, kp.y)

KpStep(v, st, k, w) ==
  IF v \in Guarded THEN KpStepGuarded(st, k, w)
  ELSE KpStepPlain(st, k, w, v = "part_001")

\* the loop visiting the keypoints from the last to the first
RECURSIVE KpLoopBackwards(_, _, _, _, _)
KpLoopBackwards(v, st, kps, i, w) ==
  IF i > Len(kps) \/ st.threw THEN st
  ELSE KpLoopBackwards(v, KpStep(v, st, kps[Len(kps) + 1 - i], w), kps, i + 1, w)

\* the for-of loop from keypoint i on; an exception ends it
RECURSIVE KpLoop(_, _, _, _, _)
KpLoop(v, st, kps, i, w) ==
  IF i > Len(kps) \/ st.threw THEN st
  ELSE KpLoop(v, KpStep(v, st, kps[i], w), kps, i + 1, w)

\* updatePushersFromPose returning every pusher to the origin when the slot
\* offers no keypoints
updatePushersSnapToOrigin(v, slot, w, P) ==
  LET home == IF P = None THEN P
              ELSE Some([p \in DOMAIN Val(P) |->
                           [Val(P)[p] EXCEPT !.x = Some(0), !.y = Some(0)]])
      st0 == [pushers |-> home, threw |-> FALSE] IN
  IF slot = None \/ Len(Val(slot)) = 0 THEN st0
  ELSE LET first == Val(slot)[1] IN
    IF first = None THEN st0
    ELSE IF Val(first).keypoints = None THEN st0
    ELSE KpLoop(v, [pushers |-> P, threw |-> FALSE], Val(Val(first).keypoints), 1, w)

\* updatePushersFromPose: the pushers after it, and whether it threw
updatePushersFromPose(v, slot, w, P) ==
  LET st0 == [pushers |-> P, threw |-> FALSE] IN
  IF slot = None \/ Len(Val(slot)) = 0 THEN st0
  ELSE LET first == Val(slot)[1] IN
    IF first = None THEN (IF v \in Guarded THEN st0 ELSE [st0 EXCEPT !.threw = TRUE])
    ELSE IF Val(first).keypoints = None THEN st0
    ELSE KpLoop(v, st0, Val(Val(first).keypoints), 1, w)

-----------------------------------------------------------------------------
(* Detection callbacks                                                      *)

\* detectStart callback of sketch.js / part_000: poses = results || []
CallbackA(res) == IF IsSome(res) THEN res ELSE Some(<< >>)

\* gotPoses of part_001 / part_002: poses = results
gotPoses(res) == res

\* the poseNet callback reads k.part, k.position.x, k.position.y, k.score
NormKp(k) ==
  Kp(Val(k).part, None, Val(Val(k).position).x, Val(Val(k).position).y,
     None, Val(k).score, None)

\* r.pose?.keypoints || []
RawKpsB(r) ==
  IF Val(r).pose = None THEN << >>
  ELSE IF Val(Val(r).pose).keypoints = None THEN << >>
  ELSE Val(Val(Val(r).pose).keypoints)

\* the callback throws on a null result entry, a null keypoint or a keypoint
\* without position
ThrowsB(res) ==
  /\ IsSome(res)
  /\ \E i \in 1..Len(Val(res)) :
       \/ Val(res)[i] = None
       \/ \E j \in 1..Len(RawKpsB(Val(res)[i])) :
            LET k == RawKpsB(Val(res)[i])[j] IN
              k = None \/ Val(k).position = None

NormPoseB(r) ==
  LET kps == RawKpsB(r) IN
    Some(PoseA([j \in 1..Len(kps) |-> Some(NormKp(kps[j]))]))

\* the slot the poseNet callback writes when it does not throw
CallbackB(res) ==
  IF res = None THEN Some(<< >>)
  ELSE Some([i \in 1..Len(Val(res)) |-> NormPoseB(Val(res)[i])])


-----------------------------------------------------------------------------
(* Floating bodies (SpriteBody)                                             *)

\* the window sizes the host takes
WindowSizes == { <<1280, 720>>, <<320, 240>> }

\* the image file i decodes to; a file of the repository's assets folder
ImageDims(i) == IF i = 1 THEN [width |-> 100, height |-> 100]
                ELSE [width |-> 1000 * i, height |-> 100]

\* what p5's random(a, b) may return, sampled at both ends of its range
RandomSample(a, b) ==
  LET lo == IF a <= b THEN a ELSE b
      hi == IF a <= b THEN b ELSE a
  IN IF lo = hi THEN {lo} ELSE {lo, hi - 1}

\* random(CFG.spriteScaleMin, CFG.spriteScaleMax), sampled
ScaleSample == {spriteScaleMin, spriteScaleMax - 2}

\* the radius without the lower limit on the two dimensions
SpriteRadiusUnclamped(img, scale) ==
  Max((img.width * scale) \div 100, (img.height * scale) \div 100) \div 2

\* this.r of the SpriteBody constructor: max(max(20, w*scale), max(20, h*scale)) * 0.5
SpriteRadius(img, scale) ==
  LET w == Max(MinSpriteDim, (img.width * scale) \div 100)
      h == Max(MinSpriteDim, (img.height * scale) \div 100)
  IN Max(w, h) \div 2

\* new SpriteBody(x, y, img, scale) with the velocity Body.setVelocity gives it
SpriteBody(x, y, img, scale, vx, vy) ==
  [img |-> img, r |-> SpriteRadius(img, scale), x |-> x, y |-> y, vx |-> vx, vy |-> vy]

\* bounceX with the right edge clamped to the edge itself, the radius forgotten
bounceXNoRadius(s, w) ==
  IF s.x - s.r < 0 THEN [s EXCEPT !.x = s.r, !.vx = Abs(s.vx)]
  ELSE IF s.x + s.r > w THEN [s EXCEPT !.x = w, !.vx = -Abs(s.vx)]
  ELSE s

\* bounceX negating the x-velocity whatever its sign
bounceXNegate(s, w) ==
  IF s.x - s.r < 0 THEN [s EXCEPT !.x = s.r, !.vx = -s.vx]
  ELSE IF s.x + s.r > w THEN [s EXCEPT !.x = w - s.r, !.vx = -s.vx]
  ELSE s

\* the x half of bounceOffEdges
bounceX(s, w) ==
  IF s.x - s.r < 0 THEN [s EXCEPT !.x = s.r, !.vx = Abs(s.vx)]
  ELSE IF s.x + s.r > w THEN [s EXCEPT !.x = w - s.r, !.vx = -Abs(s.vx)]
  ELSE s

\* bounceY stopping the body along y instead of turning it round
bounceYZeroing(s, h) ==
  IF s.y - s.r < 0 THEN [s EXCEPT !.y = s.r, !.vy = 0]
  ELSE IF s.y + s.r > h THEN [s EXCEPT !.y = h - s.r, !.vy = 0]
  ELSE s

\* pos.y - this.r < 0 || pos.y + this.r > height
CrossesEdgeY(s, h) == s.y - s.r < 0 \/ s.y + s.r > h

\* the y half of bounceOffEdges; pos and v are the body's own vectors, which
\* Body.setPosition and Body.setVelocity update in place, so it reads the x
\* and vx the first half has just written
bounceY(s, h) ==
  IF s.y - s.r < 0 THEN [s EXCEPT !.y = s.r, !.vy = Abs(s.vy)]
  ELSE IF s.y + s.r > h THEN [s EXCEPT !.y = h - s.r, !.vy = -Abs(s.vy)]
  ELSE s

\* bounceOffEdges whose y half writes back the x and vx it read before the x
\* half ran
bounceOffEdgesStale(s, w, h) ==
  IF CrossesEdgeY(s, h) THEN bounceY(s, h) ELSE bounceX(s, w)

bounceOffEdges(s, w, h) == bounceY(bounceX(s, w), h)

\* new PusherBody(0, 0, r)
PusherBody(r) == [x |-> Some(0), y |-> Some(0), r |-> r]

NewPushers ==
  Some([left  |-> PusherBody(pusherRadiusHand),
        right |-> PusherBody(pusherRadiusHand),
        nose  |-> PusherBody(pusherRadiusNose)])

\* img && img.width && img.height
ImgUsable(img) == img.width # 0 /\ img.height # 0


-----------------------------------------------------------------------------
(* Initial state: the page has loaded the script, nothing has run           *)

Init ==
  /\ variant \in Variants
  /\ ml5 \in [bodyPose : BOOLEAN, poseNet : BOOLEAN]
  /\ (variant \notin Guarded => ~ml5.poseNet)   \* never read by part_001, part_002
  /\ width = 0 /\ height = 0
  /\ video = None
  /\ setupPc = "init" /\ setupIdx = 0
  /\ probeLog = << >>
  /\ ASSET_BASE = None
  /\ loaded = << >>
  /\ spriteImgs = << >>
  /\ sprites = << >>
  /\ pushers = None
  /\ metaFired = 0
  /\ starts = << >>
  /\ poseSystem = "none"
  /\ attempts = << >>
  /\ registered = [A |-> 0, B |-> 0]
  /\ poses = Some(<< >>)
  /\ lastResult = [backend |-> "", res |-> None]
  /\ nDelivered = 0
  /\ cbThrew = FALSE
  /\ tickThrew = FALSE
  /\ preBounce = << >>
  /\ tfLog = << >>
  /\ event = "other"

poseVars == << metaFired, starts, poseSystem, attempts, registered, tfLog >>
slotVars == << poses, lastResult, nDelivered, cbThrew >>
assetVars == << probeLog, ASSET_BASE, loaded >>

-----------------------------------------------------------------------------
(* Images                                                                   *)

\* a decoded image of file i
GoodImage(i) == [file |-> i, ok |-> TRUE,
                 width |-> ImageDims(i).width, height |-> ImageDims(i).height]

\* what loadImage hands back for a file that failed to load: p5 returns its
\* image object before the load settles, and its size then is the host's
\* (0 x 0 or the 1 x 1 placeholder)
BadImage(i, d) == [file |-> i, ok |-> FALSE, width |-> d, height |-> d]

\* which sprite files load: every pattern, and the sample the whole-program
\* specification draws from (all load, none loads, all but the first load)
AllLoadPatterns == [1..MaxFiles -> BOOLEAN]
LoadPatterns ==
  { [i \in 1..MaxFiles |-> TRUE], [i \in 1..MaxFiles |-> FALSE],
    [i \in 1..MaxFiles |-> i # 1] }

\* preload of sketch.js, part_001, part_002: SPRITE_FILES.map(loadImage);
\* p5 calls setup once every load has settled
Preload ==
  /\ variant # "part_000"
  /\ setupPc = "init"
  /\ \E ok \in LoadPatterns, d \in {0, 1} :
       spriteImgs' = [i \in 1..MaxFiles |->
                        IF ok[i] THEN GoodImage(i) ELSE BadImage(i, d)]
  /\ setupPc' = "preloaded"
  /\ event' = "other"
  /\ UNCHANGED << variant, ml5, width, height, video, setupIdx, assetVars,
                  sprites, pushers, poseVars, slotVars, tickThrew, preBounce >>

\* spriteImgs.filter((img) => img && img.width && img.height)
FilterImgs(imgs) == SelectSeq(imgs, ImgUsable)

\* the choices random() makes for one body
SpriteChoices(pool, w, h) ==
  [img : IF Len(pool) = 0 THEN {} ELSE {pool[1], pool[Len(pool)]},
   scale : {spriteScaleMin},
   x : {SpriteMargin},
   y : {h \div 2},
   vx : {-12},
   vy : {0}]

\* how many bodies the sprite-creation loop makes: none for an empty pool,
\* else CFG.spriteCount
SpriteCountFor(pool) == IF Len(pool) = 0 THEN 0 ELSE MaxSprites

\* the sprite-creation loop stopping one iteration early
CreateSpritesDropLast(pool, c) ==
  [i \in 1..(SpriteCountFor(pool) - 1) |->
     SpriteBody(c[i].x, c[i].y, c[i].img, c[i].scale, c[i].vx, c[i].vy)]

\* the sprite-creation loop, c[i] being the random choices of iteration i
CreateSprites(pool, c) ==
  [i \in 1..SpriteCountFor(pool) |->
     SpriteBody(c[i].x, c[i].y, c[i].img, c[i].scale, c[i].vx, c[i].vy)]

\* setup calling startPose itself instead of waiting for loadedmetadata
SetupStartsEager == << "play" >>

\* the runs of startPose that setup itself begins: none, it only installs the
\* loadedmetadata handler (part_002: the createCapture callback)
SetupStarts == << >>

\* the part of setup from "Create sprites" to the end: bodies, pushers, capture
\* and the loadedmetadata handler
FinishSetup(pool, w, h) ==
  /\ \E c \in [1..SpriteCountFor(pool) -> SpriteChoices(pool, w, h)] :
       sprites' = CreateSprites(pool, c)
  /\ pushers' = NewPushers
  /\ video' = IF variant = "part_002" THEN Some(<<0, 0>>) ELSE Some(<<w, h>>)
  /\ starts' = SetupStarts
  /\ attempts' = [i \in 1..Len(SetupStarts) |-> << >>]
  /\ tfLog' = [i \in 1..Len(SetupStarts) |-> << >>]
  /\ setupPc' = "done"

\* setup of sketch.js, part_001, part_002 (part_002's is async but never awaits)
Setup ==
  /\ variant # "part_000"
  /\ setupPc = "preloaded"
  /\ \E ws \in WindowSizes :
       /\ width' = ws[1] /\ height' = ws[2]
       /\ spriteImgs' = FilterImgs(spriteImgs)
       /\ FinishSetup(FilterImgs(spriteImgs), ws[1], ws[2])
  /\ event' = "other"
  /\ UNCHANGED << variant, ml5, setupIdx, assetVars, metaFired, poseSystem,
                  registered, slotVars, tickThrew, preBounce >>


(* setup of part_000: async, suspended at every probe and every image load  *)

\* createCanvas, the Matter world, then loadAllAssets -> pickAssetBase issues
\* its first probe
SetupBegin ==
  /\ variant = "part_000"
  /\ setupPc = "init"
  /\ \E ws \in WindowSizes : width' = ws[1] /\ height' = ws[2]
  /\ setupPc' = "probe" /\ setupIdx' = 1
  /\ event' = "other"
  /\ UNCHANGED << variant, ml5, video, assetVars, spriteImgs, sprites, pushers,
                  poseVars, slotVars, tickThrew, preBounce >>

\* urlExists: r.ok of the HEAD request, false when fetch rejects
urlExists(outcome) == outcome = "ok"

\* pickAssetBase probing every candidate before it returns
pickAssetBaseProbeAll(i, hit) ==
  IF i < NumCandidates THEN None ELSE IF hit THEN Some(i) ELSE Some(1)

\* pickAssetBase defaulting to the last candidate instead of the first
pickAssetBaseLast(i, hit) ==
  IF hit THEN Some(i) ELSE IF i < NumCandidates THEN None ELSE Some(NumCandidates)

\* pickAssetBase after the probe of candidate i has settled with `hit`:
\* <<i>> chosen, <<1>> chosen by default after the last miss, or <<>> to go on
pickAssetBase(i, hit) ==
  IF hit THEN Some(i)
  ELSE IF i < NumCandidates THEN None
  ELSE Some(1)

\* the pending probe settles; pickAssetBase returns or probes the next one
ProbeWith(outcomes) ==
  /\ setupPc = "probe"
  /\ \E outcome \in outcomes :
       /\ probeLog' = Append(probeLog, outcome)
       /\ ASSET_BASE' = pickAssetBase(setupIdx, urlExists(outcome))
  /\ IF ASSET_BASE' = None
       THEN setupPc' = "probe" /\ setupIdx' = setupIdx + 1
       ELSE setupPc' = "corners" /\ setupIdx' = 1
  /\ event' = "other"
  /\ UNCHANGED << variant, ml5, width, height, video, loaded, spriteImgs, sprites,
                  pushers, poseVars, slotVars, tickThrew, preBounce >>

ProbeDone == ProbeWith({"ok", "notok"})
ProbeDoneAny == ProbeWith({"ok", "notok", "throw"})

\* one of the two corner images settles (the overlay itself is not modelled)
CornerDone ==
  /\ setupPc = "corners"
  /\ IF setupIdx < 2
       THEN setupPc' = "corners" /\ setupIdx' = setupIdx + 1
       ELSE setupPc' = "sprites" /\ setupIdx' = 1
  /\ event' = "other"
  /\ UNCHANGED << variant, ml5, width, height, video, assetVars, spriteImgs,
                  sprites, pushers, poseVars, slotVars, tickThrew, preBounce >>

\* loaded after loadImageAsync of file i resolved with ok
LoadOne(ld, i, ok) == IF ok THEN Append(ld, GoodImage(i)) ELSE ld

\* the outcomes the next load may have: those of the patterns that agree with
\* the loads settled so far
LoadOutcomes(patterns) ==
  { pat[setupIdx] : pat \in { q \in patterns :
      \A j \in 1..(setupIdx - 1) :
        q[j] = (\E k \in 1..Len(loaded) : loaded[k].file = j) } }

\* a sprite image settles, and the next load is issued
SpriteLoadWith(patterns) ==
  /\ setupPc = "sprites"
  /\ setupIdx < MaxFiles
  /\ \E ok \in LoadOutcomes(patterns) : loaded' = LoadOne(loaded, setupIdx, ok)
  /\ setupIdx' = setupIdx + 1
  /\ event' = "other"
  /\ UNCHANGED << variant, ml5, width, height, video, setupPc, probeLog, ASSET_BASE,
                  spriteImgs, sprites, pushers, poseVars, slotVars, tickThrew, preBounce >>

\* the last sprite image settles: spriteImgs = loaded, loadAllAssets returns
\* and setup runs to its end
SetupEndWith(patterns) ==
  /\ setupPc = "sprites"
  /\ setupIdx = MaxFiles
  /\ \E ok \in LoadOutcomes(patterns) :
       /\ loaded' = LoadOne(loaded, setupIdx, ok)
       /\ spriteImgs' = loaded'
       /\ FinishSetup(loaded', width, height)
  /\ event' = "other"
  /\ UNCHANGED << variant, ml5, width, height, setupIdx, probeLog, ASSET_BASE,
                  metaFired, poseSystem, registered, slotVars, tickThrew, preBounce >>

SpriteLoadDone == SpriteLoadWith(LoadPatterns)
SpriteLoadDoneAny == SpriteLoadWith(AllLoadPatterns)
SetupEnd == SetupEndWith(LoadPatterns)
SetupEndAny == SetupEndWith(AllLoadPatterns)

\* a frame loop that does not wait for setup to begin
CanvasAlways == TRUE

\* the canvas exists: setup has run at least its synchronous start
CanvasExists == setupPc \notin {"init", "preloaded"}

\* windowResized placing the floating bodies anew in the resized viewport
WindowResizedReseeds ==
  /\ CanvasExists
  /\ \E ws \in WindowSizes :
       /\ ws # <<width, height>>
       /\ width' = ws[1] /\ height' = ws[2]
       /\ video' = IF video = None THEN None ELSE Some(ws)
       /\ sprites' = [i \in 1..Len(sprites) |->
                        [sprites[i] EXCEPT !.x = SpriteMargin, !.y = ws[2] \div 2]]
  /\ event' = "other"
  /\ UNCHANGED << variant, ml5, setupPc, setupIdx, assetVars, spriteImgs,
                  pushers, poseVars, slotVars, tickThrew, preBounce >>

\* windowResized: resizeCanvas(windowWidth, windowHeight); if (video) video.size(...)
WindowResized ==
  /\ CanvasExists
  /\ \E ws \in WindowSizes :
       /\ ws # <<width, height>>
       /\ width' = ws[1] /\ height' = ws[2]
       /\ video' = IF video = None THEN None ELSE Some(ws)
  /\ event' = "other"
  /\ UNCHANGED << variant, ml5, setupPc, setupIdx, assetVars, spriteImgs, sprites,
                  pushers, poseVars, slotVars, tickThrew, preBounce >>


-----------------------------------------------------------------------------
(* Pose startup: startPose (sketch.js, part_000), startBodyPose (part_001),  *)
(* the createCapture callback (part_002)                                    *)

\* a metadata handler installed as soon as the canvas exists, before setup
\* has waited for the assets and created the pushers
HandlerInstalledEarly == CanvasExists

\* video.elt.onloadedmetadata is assigned by the last statements of setup,
\* after the bodies and the pushers have been created
HandlerInstalled == setupPc = "done"

\* the camera's metadata-ready signal fires (p5 calls part_002's
\* createCapture callback from the same event); the handler runs to its
\* first await
LoadedMetadataUpTo(n) ==
  /\ HandlerInstalled
  /\ metaFired < n
  /\ metaFired' = metaFired + 1
  /\ starts' = Append(starts, IF variant \in Guarded THEN "tf" ELSE "play")
  /\ attempts' = Append(attempts, << >>)
  /\ tfLog' = Append(tfLog, << >>)
  /\ video' = IF variant = "part_002" THEN Some(<<width, height>>) ELSE video
  /\ event' = "other"
  /\ UNCHANGED << variant, ml5, width, height, setupPc, setupIdx, assetVars,
                  spriteImgs, sprites, pushers, poseSystem, registered, slotVars,
                  tickThrew, preBounce >>

\* the tf global and what its two backends do when asked: tf is absent, is an
\* object without setBackend/ready ("bare"), or is whole; setBackend + ready
\* resolve true ("ok"), resolve false ("false") or throw ("throws")
TfOutcomes == {"ok", "false", "throws"}
TfEnvs == [tf : {"absent", "bare", "full"}, gl : TfOutcomes, cpu : TfOutcomes]

\* a negotiation whose second attempt is not wrapped in a handler
forceTfUncaught(v, e) ==
  IF e.tf # "full" THEN [log |-> << >>, threw |-> e.tf = "bare"]
  ELSE IF e.gl # "throws" THEN [log |-> << <<"webgl", e.gl>> >>, threw |-> FALSE]
  ELSE [log |-> << <<"webgl", e.gl>>, <<"cpu", e.cpu>> >>, threw |-> e.cpu = "throws"]

\* forceTfBackend: webgl inside try, cpu inside the catch's own try
forceTfBackend(e) ==
  IF e.tf = "absent" THEN [log |-> << >>, threw |-> FALSE]
  ELSE IF e.tf = "bare"
    \* tf.setBackend is not a function: both try blocks end in a TypeError
    THEN [log |-> << <<"webgl", "throws">>, <<"cpu", "throws">> >>, threw |-> FALSE]
  ELSE IF e.gl # "throws" THEN [log |-> << <<"webgl", e.gl>> >>, threw |-> FALSE]
  ELSE [log |-> << <<"webgl", e.gl>>, <<"cpu", e.cpu>> >>, threw |-> FALSE]

\* forceTfNoWebGPU: webgl inside an inner try that returns, cpu after it, all
\* of it inside an outer try
forceTfNoWebGPU(e) ==
  IF e.tf = "absent" THEN [log |-> << >>, threw |-> FALSE]
  ELSE IF e.tf = "bare" THEN [log |-> << >>, threw |-> FALSE]
  ELSE IF e.gl # "throws" THEN [log |-> << <<"webgl", e.gl>> >>, threw |-> FALSE]
  ELSE [log |-> << <<"webgl", e.gl>>, <<"cpu", e.cpu>> >>, threw |-> FALSE]

\* the negotiation startPose awaits first: the attempts it makes and whether
\* an error leaves it
forceTf(v, e) == IF v = "sketch" THEN forceTfBackend(e) ELSE forceTfNoWebGPU(e)

\* the host delivers up to MaxMeta signals, or one more
LoadedMetadata == LoadedMetadataUpTo(MaxMeta)
LoadedMetadataAgain == LoadedMetadataUpTo(MaxMeta + 1)

\* await forceTfBackend() / forceTfNoWebGPU() settles; an error leaving it
\* would be caught by startPose's handler, else video.elt.play() is called
\* and awaited
TfDoneWith(envs) ==
  /\ \E i \in 1..Len(starts), e \in envs :
       /\ starts[i] = "tf"
       /\ LET r == forceTf(variant, e) IN
            /\ tfLog' = [tfLog EXCEPT ![i] = r.log]
            /\ starts' = [starts EXCEPT ![i] = IF r.threw THEN "failed_tf" ELSE "play"]
  /\ event' = "other"
  /\ UNCHANGED << variant, ml5, width, height, video, setupPc, setupIdx, assetVars,
                  spriteImgs, sprites, pushers, metaFired, poseSystem, attempts,
                  registered, slotVars, tickThrew, preBounce >>

\* the whole-program specification samples one negotiation: webgl is taken
TfDone == TfDoneWith({ [tf |-> "full", gl |-> "ok", cpu |-> "ok"] })
TfDoneAny == TfDoneWith(TfEnvs)

\* poseModel.detectStart(video, callback) / poseModel.on("pose", callback)
DetectStart(backend, dc) ==
  IF dc THEN [pc |-> "done", reg |-> backend]
  ELSE [pc |-> "failed_construct", reg |-> ""]

\* ml5.bodyPose(video): it throws, returns the model, or returns a promise
ConstructA(oc, dc) ==
  IF oc = "throws" THEN [pc |-> "failed_construct", reg |-> ""]
  ELSE IF oc = "promise" THEN [pc |-> "model", reg |-> ""]
  ELSE DetectStart("A", dc)

\* ml5.poseNet(video, onLoaded) then poseModel.on("pose", ...)
ConstructB(oc, dc) ==
  IF oc = "throws" THEN [pc |-> "failed_construct", reg |-> ""]
  ELSE DetectStart("B", dc)

\* startPose testing backend B before backend A
SelectBackendBFirst(v, m, sys, oc, dc) ==
  IF v \in Guarded THEN
    IF m.poseNet THEN
      [step |-> ConstructB(oc, dc), log |-> <<"testB", "callB">>, sys |-> "poseNet"]
    ELSE IF m.bodyPose THEN
      [step |-> ConstructA(oc, dc), log |-> <<"testB", "testA", "callA">>, sys |-> "bodyPose"]
    ELSE
      [step |-> [pc |-> "failed_neither", reg |-> ""], log |-> <<"testB", "testA">>,
       sys |-> IF v = "sketch" THEN "none" ELSE sys]
  ELSE
    IF m.bodyPose THEN
      [step |-> ConstructA(oc, dc), log |-> <<"callA">>, sys |-> sys]
    ELSE
      [step |-> [pc |-> "failed_construct", reg |-> ""], log |-> <<"callA">>, sys |-> sys]

\* startPose registering a result callback before it finds neither backend
SelectBackendLateCheck(v, m, sys, oc, dc) ==
  IF v \in Guarded THEN
    IF m.bodyPose THEN
      [step |-> ConstructA(oc, dc), log |-> <<"testA", "callA">>, sys |-> "bodyPose"]
    ELSE IF m.poseNet THEN
      [step |-> ConstructB(oc, dc), log |-> <<"testA", "testB", "callB">>, sys |-> "poseNet"]
    ELSE
      [step |-> [pc |-> "failed_neither", reg |-> "A"], log |-> <<"testA", "testB">>,
       sys |-> IF v = "sketch" THEN "none" ELSE sys]
  ELSE
    IF m.bodyPose THEN
      [step |-> ConstructA(oc, dc), log |-> <<"callA">>, sys |-> sys]
    ELSE
      [step |-> [pc |-> "failed_construct", reg |-> ""], log |-> <<"callA">>, sys |-> sys]

\* startPose going on to backend B when backend A fails in its constructor or
\* in detectStart
SelectBackendFallsBack(v, m, sys, oc, dc) ==
  IF v \in Guarded THEN
    IF m.bodyPose THEN
      IF ConstructA(oc, dc).pc = "failed_construct" /\ m.poseNet THEN
        [step |-> ConstructB("object", TRUE),
         log |-> <<"testA", "callA", "testB", "callB">>, sys |-> "poseNet"]
      ELSE
        [step |-> ConstructA(oc, dc), log |-> <<"testA", "callA">>, sys |-> "bodyPose"]
    ELSE IF m.poseNet THEN
      [step |-> ConstructB(oc, dc), log |-> <<"testA", "testB", "callB">>, sys |-> "poseNet"]
    ELSE
      [step |-> [pc |-> "failed_neither", reg |-> ""], log |-> <<"testA", "testB">>,
       sys |-> IF v = "sketch" THEN "none" ELSE sys]
  ELSE
    IF m.bodyPose THEN
      [step |-> ConstructA(oc, dc), log |-> <<"callA">>, sys |-> sys]
    ELSE
      [step |-> [pc |-> "failed_construct", reg |-> ""], log |-> <<"callA">>, sys |-> sys]

\* the backend selection of startPose once play() has resolved: the position
\* it reaches, the callback it registers, the tests and constructor calls it
\* makes, and poseSystem
SelectBackend(v, m, sys, oc, dc) ==
  IF v \in Guarded THEN
    IF m.bodyPose THEN
      [step |-> ConstructA(oc, dc), log |-> <<"testA", "callA">>, sys |-> "bodyPose"]
    ELSE IF m.poseNet THEN
      [step |-> ConstructB(oc, dc), log |-> <<"testA", "testB", "callB">>, sys |-> "poseNet"]
    ELSE
      [step |-> [pc |-> "failed_neither", reg |-> ""], log |-> <<"testA", "testB">>,
       sys |-> IF v = "sketch" THEN "none" ELSE sys]
  ELSE
    \* part_001, part_002 call ml5.bodyPose() untested: a TypeError when absent
    IF m.bodyPose THEN
      [step |-> ConstructA(oc, dc), log |-> <<"callA">>, sys |-> sys]
    ELSE
      [step |-> [pc |-> "failed_construct", reg |-> ""], log |-> <<"callA">>, sys |-> sys]

Register(reg, backend) ==
  IF backend = "" THEN reg ELSE [reg EXCEPT ![backend] = @ + 1]

\* startPose going on to the backend selection after play() was rejected
PlayDoneIgnoresRejection ==
  /\ \E i \in 1..Len(starts), ok \in BOOLEAN,
        oc \in {"throws", "object", "promise"}, dc \in BOOLEAN :
       /\ starts[i] = "play"
       /\ LET r == SelectBackend(variant, ml5, poseSystem, oc, dc) IN
            /\ starts' = [starts EXCEPT ![i] = IF ok THEN r.step.pc ELSE "failed_play"]
            /\ attempts' = [attempts EXCEPT ![i] = r.log]
            /\ poseSystem' = r.sys
            /\ registered' = Register(registered, r.step.reg)
  /\ event' = "other"
  /\ UNCHANGED << variant, ml5, width, height, video, setupPc, setupIdx, assetVars,
                  spriteImgs, sprites, pushers, metaFired, tfLog, slotVars, tickThrew,
                  preBounce >>

\* the play() promise settles: a rejection is caught and logged, else the
\* backend is selected
PlayDone ==
  /\ \E i \in 1..Len(starts), ok \in BOOLEAN,
        oc \in {"throws", "object", "promise"}, dc \in BOOLEAN :
       /\ starts[i] = "play"
       /\ IF ~ok
            THEN /\ starts' = [starts EXCEPT ![i] = "failed_play"]
                 /\ UNCHANGED << poseSystem, attempts, registered >>
            ELSE LET r == SelectBackend(variant, ml5, poseSystem, oc, dc) IN
                 /\ starts' = [starts EXCEPT ![i] = r.step.pc]
                 /\ attempts' = [attempts EXCEPT ![i] = r.log]
                 /\ poseSystem' = r.sys
                 /\ registered' = Register(registered, r.step.reg)
  /\ event' = "other"
  /\ UNCHANGED << variant, ml5, width, height, video, setupPc, setupIdx, assetVars,
                  spriteImgs, sprites, pushers, metaFired, tfLog, slotVars, tickThrew,
                  preBounce >>

\* the promise ml5.bodyPose returned settles: rejected, or detectStart runs
ModelDone ==
  /\ \E i \in 1..Len(starts), ok \in BOOLEAN, dc \in BOOLEAN :
       /\ starts[i] = "model"
       /\ LET step == IF ok THEN DetectStart("A", dc)
                      ELSE [pc |-> "failed_construct", reg |-> ""] IN
            /\ starts' = [starts EXCEPT ![i] = step.pc]
            /\ registered' = Register(registered, step.reg)
  /\ event' = "other"
  /\ UNCHANGED << variant, ml5, width, height, video, setupPc, setupIdx, assetVars,
                  spriteImgs, sprites, pushers, metaFired, poseSystem, attempts,
                  tfLog, slotVars, tickThrew, preBounce >>

-----------------------------------------------------------------------------
(* Detection results arrive                                                 *)

\* the slot after the callback of `backend` has been handed res
SlotAfter(v, backend, slot, res) ==
  IF backend = "A" THEN (IF v \in Guarded THEN CallbackA(res) ELSE gotPoses(res))
  ELSE IF ThrowsB(res) THEN slot
  ELSE CallbackB(res)

\* a result callback that also runs the mapper on what it has just stored
DeliverMovesPushers(backend, res) ==
  /\ registered[backend] > 0
  /\ nDelivered < MaxBurst
  /\ poses' = SlotAfter(variant, backend, poses, res)
  /\ pushers' = updatePushersFromPose(variant, poses', width, pushers).pushers
  /\ cbThrew' = (backend = "B" /\ ThrowsB(res))
  /\ lastResult' = [backend |-> backend, res |-> res]
  /\ nDelivered' = nDelivered + 1
  /\ event' = "other"
  /\ UNCHANGED << variant, ml5, width, height, video, setupPc, setupIdx, assetVars,
                  spriteImgs, sprites, poseVars, tickThrew, preBounce >>

Deliver(backend, res) ==
  /\ registered[backend] > 0
  /\ nDelivered < MaxBurst
  /\ poses' = SlotAfter(variant, backend, poses, res)
  /\ cbThrew' = (backend = "B" /\ ThrowsB(res))
  /\ lastResult' = [backend |-> backend, res |-> res]
  /\ nDelivered' = nDelivered + 1
  /\ event' = "other"
  /\ UNCHANGED << variant, ml5, width, height, video, setupPc, setupIdx, assetVars,
                  spriteImgs, sprites, pushers, poseVars, tickThrew, preBounce >>

-----------------------------------------------------------------------------
(* The frame: draw                                                          *)

\* Engine.update(engine): the solver is a black box that leaves a dynamic body
\* at some position with some velocity; c names the sampled outcome
SolverPos(kind, r, extent) ==
  CASE kind = "outside_lo" -> -1
    [] kind = "cross_lo"   -> r - 1
    [] kind = "touch_lo"   -> r
    [] kind = "mid"        -> extent \div 2
    [] kind = "touch_hi"   -> extent - r
    [] kind = "cross_hi"   -> extent - r + 1
    [] kind = "outside_hi" -> extent + 1

EngineUpdate(s, c, w, h) ==
  [s EXCEPT !.x = SolverPos(c.px, s.r, w), !.y = SolverPos(c.py, s.r, h),
            !.vx = c.v[1], !.vy = c.v[2]]

SolverPlaces ==
  {"outside_lo", "cross_lo", "touch_lo", "mid", "touch_hi", "cross_hi", "outside_hi"}

\* the sampled outcomes of one solver step for one body: every pair of places
\* along the two axes, with a velocity pointing either way or at rest
SolverChoices(rich) ==
  IF rich
    THEN [px : SolverPlaces, py : SolverPlaces,
          v : { <<-12, 11>>, <<11, -12>>, <<0, 0>> }]
    ELSE [px : {"cross_lo", "mid"}, py : {"cross_hi"}, v : { <<-12, 11>> }]

\* the bodies after the solver step, every body displaced by the sampled
\* outcome c
AfterEngineUpdate(rich) ==
  { [i \in 1..Len(sprites) |-> EngineUpdate(sprites[i], c, width, height)] :
      c \in SolverChoices(rich) }

\* draw(): solver step, containment of every body, then the pushers follow
\* the pose slot.  An uncaught exception ends the frame loop.
DrawWith(rich) ==
  /\ CanvasExists
  /\ ~tickThrew
  /\ \E moved \in AfterEngineUpdate(rich) :
       /\ preBounce' = moved
       /\ sprites' = [i \in 1..Len(moved) |-> bounceOffEdges(moved[i], width, height)]
  /\ LET st == updatePushersFromPose(variant, poses, width, pushers) IN
       /\ pushers' = st.pushers
       /\ tickThrew' = st.threw
  /\ nDelivered' = 0
  /\ event' = "draw"
  /\ UNCHANGED << variant, ml5, width, height, video, setupPc, setupIdx, assetVars,
                  spriteImgs, poseVars, poses, lastResult, cbThrew >>

Draw == DrawWith(FALSE)
DrawRich == DrawWith(TRUE)


-----------------------------------------------------------------------------
(* Sampled detection results                                                *)

\* a keypoint that names a pusher but carries its score only in `score`
KpScoreOnly(name, x, y, score) ==
  Kp(Some(name), None, Some(x), Some(y), None, None, Some(score))

\* a keypoint without coordinates
KpNoCoords(name, conf) ==
  Kp(Some(name), None, None, None, None, Some(conf), None)

\* a legacy keypoint without its position object
KpNoPosition(part, score) ==
  Kp(None, Some(part), None, None, None, None, Some(score))

OnePose(p) == Some(<< Some(p) >>)

ResultsA ==
  { None,
    Some(<< None >>),
    OnePose(PoseA(<< Some(KpA("left_wrist", 100, 200, 90)) >>)),
    OnePose(PoseA(<< Some(KpScoreOnly("nose", 700, 10, 5)) >>)) }

ResultsB ==
  { None,
    OnePose(PoseB(<< Some(KpB("rightWrist", 300, 50, 80)) >>)),
    OnePose(PoseB(<< Some(KpNoPosition("nose", 90)) >>)) }

KeypointsA ==
  { Some(KpA("left_wrist", 100, 200, 90)),
    Some(KpA("right_wrist", 300, 50, poseConfidence)),
    Some(KpA("nose", 640, 360, poseConfidence - 1)),
    Some(KpA("left_elbow", 10, 10, 99)),
    Some(KpScoreOnly("nose", 700, 10, 5)),
    Some(KpNoCoords("left_wrist", 90)),
    None }

\* one pose naming the left wrist twice: under both spellings in either
\* order, and a second time below the confidence cutoff
KpLeftAlias == Kp(Some("leftWrist"), None, Some(400), Some(300), None, Some(80), None)

DuplicatePoses ==
  { OnePose(PoseA(<< Some(KpA("left_wrist", 100, 200, 90)), Some(KpLeftAlias) >>)),
    OnePose(PoseA(<< Some(KpLeftAlias), Some(KpA("left_wrist", 100, 200, 90)) >>)),
    OnePose(PoseA(<< Some(KpLeftAlias), Some(KpA("left_wrist", 100, 200, 5)) >>)) }

KeypointsB ==
  { Some(KpB("leftWrist", 50, 60, 80)),
    Some(KpB("rightWrist", 300, 50, poseConfidence)),
    Some(KpB("nose", 640, 360, poseConfidence - 1)),
    Some(KpB("leftElbow", 10, 10, 99)),
    Some(KpNoPosition("nose", 90)),
    None }

SeqsUpTo2(S) == { << a >> : a \in S } \cup { << a, b >> : a \in S, b \in S }

ResultsARich ==
  { None, Some(<< >>), Some(<< None >>),
    OnePose([keypoints |-> None, pose |-> None]),
    OnePose(PoseB(<< Some(KpB("leftWrist", 50, 60, 80)) >>)),
    Some(<< Some(PoseA(<< Some(KpA("nose", 640, 360, 90)) >>)),
            Some(PoseA(<< Some(KpA("nose", 8, 9, 95)) >>)) >>) }
  \cup { OnePose(PoseA(kps)) : kps \in SeqsUpTo2(KeypointsA) }
  \cup DuplicatePoses

\* poseNet results of two subjects with the same first subject; the second
\* subject's keypoint has its position in one and lacks it in the other
TwoSubjectsB ==
  { Some(<< Some(PoseB(<< Some(KpB("leftWrist", 50, 60, 80)) >>)),
            Some(PoseB(<< Some(KpB("nose", 8, 9, 95)) >>)) >>),
    Some(<< Some(PoseB(<< Some(KpB("leftWrist", 50, 60, 80)) >>)),
            Some(PoseB(<< Some(KpNoPosition("nose", 90)) >>)) >>) }

ResultsBRich ==
  { None, Some(<< >>), Some(<< None >>),
    OnePose([keypoints |-> None, pose |-> None]),
    OnePose(PoseB(<< >>)) }
  \cup { OnePose(PoseB(kps)) : kps \in SeqsUpTo2(KeypointsB) }
  \cup TwoSubjectsB

DetectA == \E res \in ResultsA : Deliver("A", res)
DetectB == \E res \in ResultsB : Deliver("B", res)
DetectARich == \E res \in ResultsARich : Deliver("A", res)
DetectBRich == \E res \in ResultsBRich : Deliver("B", res)

-----------------------------------------------------------------------------
(* The whole program                                                        *)

Next ==
  \/ Preload
  \/ Setup
  \/ SetupBegin
  \/ ProbeDone
  \/ CornerDone
  \/ SpriteLoadDone
  \/ SetupEnd
  \/ WindowResized
  \/ LoadedMetadata
  \/ TfDone
  \/ PlayDone
  \/ ModelDone
  \/ DetectA
  \/ DetectB
  \/ Draw

Spec == Init /\ [][Next]_vars


-----------------------------------------------------------------------------
(* The asset-base probing of part_000 with every probe outcome              *)

InitAssets == Init /\ variant = "part_000"

NextAssets ==
  \/ SetupBegin
  \/ ProbeDoneAny
  \/ CornerDone
  \/ SpriteLoadDoneAny
  \/ SetupEndAny
  \/ WindowResized

SpecAssets == InitAssets /\ [][NextAssets]_vars

-----------------------------------------------------------------------------
(* The world once setup has finished                                        *)

\* the world setup leaves behind for an image pool, a viewport and a body list
WorldAfterSetup(pool, ws, bodies) ==
  /\ variant \in Variants
  /\ ml5 \in [bodyPose : BOOLEAN, poseNet : BOOLEAN]
  /\ variant \notin Guarded => ~ml5.poseNet
  /\ width = ws[1] /\ height = ws[2]
  /\ setupPc = "done"
  /\ setupIdx = IF variant = "part_000" THEN MaxFiles ELSE 0
  /\ probeLog = IF variant = "part_000" THEN << "ok" >> ELSE << >>
  /\ ASSET_BASE = IF variant = "part_000" THEN Some(1) ELSE None
  /\ loaded = IF variant = "part_000" THEN pool ELSE << >>
  /\ spriteImgs = pool
  /\ sprites = bodies
  /\ pushers = NewPushers
  /\ poses = Some(<< >>)
  /\ lastResult = [backend |-> "", res |-> None]
  /\ nDelivered = 0 /\ cbThrew = FALSE /\ tickThrew = FALSE
  /\ preBounce = << >>
  /\ event = "other"

\* the camera has not signalled yet
NoPoseYet(ws) ==
  /\ video = IF variant = "part_002" THEN Some(<<0, 0>>) ELSE Some(ws)
  /\ metaFired = 0 /\ starts = << >> /\ attempts = << >> /\ tfLog = << >>
  /\ poseSystem = "none"
  /\ registered = [A |-> 0, B |-> 0]

\* the camera has signalled once and startPose has run to its end with every
\* call succeeding: the available backend has its result callback registered
PoseStarted(ws) ==
  LET r == SelectBackend(variant, ml5, "none", "object", TRUE) IN
    /\ r.step.pc = "done"
    /\ video = Some(ws)
    /\ metaFired = 1 /\ starts = << "done" >> /\ attempts = << r.log >>
    /\ tfLog = << IF variant \in Guarded
                    THEN forceTf(variant, [tf |-> "full", gl |-> "ok", cpu |-> "ok"]).log
                    ELSE << >> >>
    /\ poseSystem = r.sys
    /\ registered = Register([A |-> 0, B |-> 0], r.step.reg)

(* Containment: bodies as the constructor can leave them, a solver that can  *)
(* leave a body anywhere, and resizes                                       *)

FullPool == [i \in 1..MaxFiles |-> GoodImage(i)]

BodiesAfterSetup(w, h) ==
  { SpriteBody(x, y, FullPool[i], scale, vx, vy) :
      x \in RandomSample(SpriteMargin, w - SpriteMargin),
      y \in RandomSample(SpriteMargin, h - SpriteMargin),
      i \in 1..MaxFiles, scale \in ScaleSample,
      vx \in RandomSample(-12, 12), vy \in RandomSample(-12, 12) }

InitBounce ==
  \E ws \in WindowSizes :
    \E bodies \in [1..MaxSprites -> BodiesAfterSetup(ws[1], ws[2])] :
      /\ WorldAfterSetup(FullPool, ws, bodies) /\ NoPoseYet(ws)
      /\ variant \in Guarded /\ ml5.bodyPose /\ ~ml5.poseNet

NextBounce ==
  \/ DrawRich
  \/ WindowResized

SpecBounce == InitBounce /\ [][NextBounce]_vars

(* Compute-backend negotiation: the world after setup, every state of the tf *)
(* global and every outcome of its two backends                             *)

InitTf ==
  \E ws \in WindowSizes :
    WorldAfterSetup(<< >>, ws, << >>) /\ NoPoseYet(ws) /\ variant \in Guarded

NextTf ==
  \/ LoadedMetadata
  \/ TfDoneAny
  \/ PlayDone
  \/ ModelDone
  \/ DetectA
  \/ DetectB
  \/ Draw
  \/ WindowResized

SpecTf == InitTf /\ [][NextTf]_vars

(* Repeated metadata-ready signals: the world after setup of sketch.js or     *)
(* part_000 and a camera that signals once more than in the whole program   *)

InitRestart ==
  \E ws \in WindowSizes :
    WorldAfterSetup(<< >>, ws, << >>) /\ NoPoseYet(ws) /\ variant \in Guarded

NextRestart ==
  \/ LoadedMetadataAgain
  \/ TfDone
  \/ PlayDone
  \/ ModelDone
  \/ DetectA
  \/ DetectB
  \/ Draw

SpecRestart == InitRestart /\ [][NextRestart]_vars

(* Pose handling: no floating bodies (every image failed to load), a       *)
(* registered result callback, every sampled detection result               *)

InitPose ==
  \E ws \in WindowSizes : WorldAfterSetup(<< >>, ws, << >>) /\ PoseStarted(ws)

NextPose ==
  \/ WindowResized
  \/ DetectARich
  \/ DetectBRich
  \/ Draw

SpecPose == InitPose /\ [][NextPose]_vars


-----------------------------------------------------------------------------
(* Properties                                                               *)

PusherNames == {"left", "right", "nose"}

\* the keypoints of the first pose in the slot, none when there is no usable pose
FirstKeypoints(slot) ==
  IF slot = None \/ Len(Val(slot)) = 0 THEN << >>
  ELSE LET first == Val(slot)[1] IN
       IF first = None \/ Val(first).keypoints = None THEN << >>
       ELSE Val(Val(first).keypoints)

\* the keypoints of kps whose name is one of pusher p's names
NamedFor(p, kps) ==
  { i \in 1..Len(kps) : kps[i] # None /\ PusherOfName(KpName(Val(kps[i]))) = p }

ValidCoords(kp) == IsSome(KpX(kp)) /\ IsSome(KpY(kp))

\* those of them the confidence cutoff of the specification accepts
AcceptedFor(p, kps) ==
  { i \in NamedFor(p, kps) :
      ValidCoords(Val(kps[i])) /\ KpConf(Val(kps[i])) >= poseConfidence }

Contained(s, w, h) ==
  /\ s.r <= s.x /\ s.x <= w - s.r
  /\ s.r <= s.y /\ s.y <= h - s.r

\* C1 as stated: after the containment correction of a tick every floating
\* body satisfies r <= x <= width - r and r <= y <= height - r, for every
\* radius and every viewport
C1_AsStated ==
  event = "draw" => \A i \in 1..Len(sprites) : Contained(sprites[i], width, height)

\* C1 as amended: after the containment correction of a tick, r <= x <= width - r
\* holds for every floating body whose diameter fits the viewport width
\* (2r <= width), and r <= y <= height - r for every body whose diameter fits
\* the viewport height (2r <= height), also right after a resize
C1_Containment ==
  event = "draw" =>
    \A i \in 1..Len(sprites) :
      LET s == sprites[i] IN
        /\ 2 * s.r <= width => (s.r <= s.x /\ s.x <= width - s.r)
        /\ 2 * s.r <= height => (s.r <= s.y /\ s.y <= height - s.r)

\* a tick has clamped a body that fits the viewport to the right and top edges
C1_Witness ==
  /\ event = "draw"
  /\ \E i \in 1..Len(sprites) :
       LET s == sprites[i] IN
         /\ 2 * s.r <= width /\ 2 * s.r <= height
         /\ s.x = width - s.r /\ s.vx < 0
         /\ s.y = s.r /\ s.vy > 0

\* C2: once setup has built the world the number of floating bodies is
\* spriteCount for a non-empty image pool and 0 for an empty one, no tick,
\* detection callback or resize changes it, and no tick of sketch.js or
\* part_000 ends in an error
C2_BodyCount ==
  /\ [](setupPc = "done" => Len(sprites) = SpriteCountFor(spriteImgs))
  /\ [](variant \in Guarded => ~tickThrew)
  /\ [][setupPc = "done" => Len(sprites') = Len(sprites)]_vars

\* a tick has run on a full body list with a detection result in the slot
C2_Witness ==
  /\ event = "draw" /\ setupPc = "done"
  /\ Len(spriteImgs) > 0 /\ Len(sprites) = MaxSprites
  /\ poses # Some(<< >>)

\* C3 as stated: in a tick a keypoint of the first pose with a recognised name
\* and valid coordinates moves its pusher if and only if its confidence
\* (confidence, else score) is at least poseConfidence: a pusher whose
\* keypoints are all below the cutoff keeps its position, and a pusher with an
\* accepted keypoint is placed on the row of one of them
C3_AsStated ==
  [][ (event' = "draw" /\ ~tickThrew') =>
        \A p \in PusherNames :
          LET kps == FirstKeypoints(poses)
              named == NamedFor(p, kps)
              acc == AcceptedFor(p, kps) IN
            /\ (\A i \in named : ValidCoords(Val(kps[i]))
                                   /\ KpConf(Val(kps[i])) < poseConfidence)
                 => Val(pushers')[p] = Val(pushers)[p]
            /\ acc # {} => \E i \in acc : Val(pushers')[p].y = KpY(Val(kps[i])) ]_vars

\* C4 as stated: after a tick a pusher whose last keypoint in iteration order
\* is accepted, with raw coordinates (x, y), is at exactly (width - x, y)
C4_AsStated ==
  (event = "draw" /\ ~tickThrew /\ pushers # None) =>
    \A p \in PusherNames :
      LET kps == FirstKeypoints(poses)
          named == NamedFor(p, kps)
          acc == AcceptedFor(p, kps) IN
        \A i \in acc :
          (\A j \in named : j <= i) =>
            /\ Val(pushers)[p].x = Mirror(width, KpX(Val(kps[i])))
            /\ Val(pushers)[p].y = KpY(Val(kps[i]))

\* C5 as stated: when two or more results were delivered since the last tick
\* the slot holds what the callback writes for the latest one, and no data of
\* an earlier result
C5_AsStated ==
  nDelivered >= 2 =>
    IF cbThrew THEN poses = Some(<< >>)
    ELSE poses = SlotAfter(variant, lastResult.backend, Some(<< >>), lastResult.res)

\* C6: every run of startPose tests backend A first, constructs backend B only
\* after both tests were made and A was found unavailable, and at most one of
\* the two backends ever has a result callback registered
C6_FallbackOrder ==
  /\ \A i \in 1..Len(attempts) :
       LET log == attempts[i] IN
         /\ (variant \in Guarded /\ log # << >>) => log[1] = "testA"
         /\ (\E j \in 1..Len(log) : log[j] = "callB") =>
              /\ ~ml5.bodyPose
              /\ log = << "testA", "testB", "callB" >>
         /\ (\E j \in 1..Len(log) : log[j] = "testB") => ~ml5.bodyPose
  /\ ~(registered.A > 0 /\ registered.B > 0)

\* backend B was reached through the fallback and its callback is registered
C6_Witness ==
  /\ registered.B > 0
  /\ \E i \in 1..Len(attempts) : attempts[i] = << "testA", "testB", "callB" >>

\* startPose found neither backend
NeitherBackend == \E i \in 1..Len(starts) : starts[i] = "failed_neither"

\* C7 as stated: once startPose has found neither backend no tick executes
C7_AsStated == NeitherBackend => event # "draw"

\* C7 as amended: when neither backend is constructable startPose raises a
\* descriptive error that its own handler logs; no result callback is
\* registered, the pose slot stays empty and the pushers stay where they were
\* created, while ticks go on (the sketch runs without pose interaction)
C7_Degraded ==
  NeitherBackend =>
    /\ registered = [A |-> 0, B |-> 0]
    /\ poses = Some(<< >>)
    /\ pushers = NewPushers
    /\ ~tickThrew

\* a tick has run after startPose found neither backend
C7_Witness == NeitherBackend /\ event = "draw"

\* C8: before the camera's metadata-ready signal has fired no run of startPose
\* exists, no backend was tested or constructed and no result callback is
\* registered
C8_AfterMetadata ==
  metaFired = 0 =>
    /\ starts = << >>
    /\ attempts = << >>
    /\ registered = [A |-> 0, B |-> 0]
    /\ poses = Some(<< >>)

\* the signal has fired and a result callback is registered
C8_Witness == metaFired > 0 /\ registered.A + registered.B > 0

\* a startup step is suspended at one of its awaits
StartupPending ==
  \/ setupPc \in {"probe", "corners", "sprites"}
  \/ \E i \in 1..Len(starts) : starts[i] \in {"tf", "play", "model"}

\* C9 as stated: no tick executes while a startup step is pending
C9_AsStated == event = "draw" => ~StartupPending

\* C9 as amended: no tick executes before setup has created the canvas and the
\* physics world; ticks do execute while asset probing, image loading and
\* pose-backend negotiation are pending, and such a tick finds no floating body
\* and no pusher until setup has created them and an empty pose slot until a
\* result callback is registered
C9_TicksDuringStartup ==
  event = "draw" =>
    /\ setupPc \notin {"init", "preloaded"}
    /\ setupPc # "done" => (sprites = << >> /\ pushers = None)
    /\ registered = [A |-> 0, B |-> 0] =>
         (poses = Some(<< >>) /\ pushers \in {None, NewPushers})

\* a tick has run while setup was suspended in its image loads
C9_Witness == event = "draw" /\ setupPc = "sprites"

\* C10: the asset base is the lowest-index candidate whose probe succeeded,
\* and the first candidate when all NumCandidates probes failed; a probe that
\* throws is a failed probe and setup goes on
C10_AssetBase ==
  /\ setupPc = "probe" => ASSET_BASE = None
  /\ setupPc \notin {"init", "probe"} =>
       /\ IsSome(ASSET_BASE)
       /\ LET k == Val(ASSET_BASE) IN
            \/ /\ k <= Len(probeLog)
               /\ probeLog[k] = "ok"
               /\ \A j \in 1..(k - 1) : probeLog[j] # "ok"
            \/ /\ k = 1
               /\ Len(probeLog) = NumCandidates
               /\ \A j \in 1..NumCandidates : probeLog[j] # "ok"

\* the first probe threw, the second succeeded and the second candidate is used
C10_Witness ==
  /\ probeLog = << "throw", "ok" >>
  /\ ASSET_BASE = Some(2)
  /\ setupPc = "corners"

\* C11: the probes are made one at a time and in list order (the k-th probe
\* made is the probe of candidate k, and a probe is issued only when the one
\* before it has settled), at most NumCandidates are made, and none is made
\* after a probe has succeeded
C11_SequentialProbing ==
  /\ [](/\ Len(probeLog) <= NumCandidates
        /\ \A j \in 1..(Len(probeLog) - 1) : probeLog[j] # "ok"
        /\ setupPc = "probe" =>
             (setupIdx = Len(probeLog) + 1 /\ setupIdx <= NumCandidates)
        /\ (setupPc # "probe" /\ probeLog # << >>) =>
             (probeLog[Len(probeLog)] = "ok" \/ Len(probeLog) = NumCandidates))
  /\ [][ probeLog' # probeLog =>
           /\ setupPc = "probe"
           /\ Len(probeLog') = setupIdx
           /\ SubSeq(probeLog', 1, Len(probeLog)) = probeLog ]_vars

\* the first probe failed, the second succeeded, the third candidate was never
\* probed and setup has finished
C11_Witness ==
  /\ probeLog = << "notok", "ok" >>
  /\ setupPc = "done"

\* the names the specification maps to each pusher
CanonicalNames(p) ==
  CASE p = "left"  -> {"left_wrist", "leftWrist"}
    [] p = "right" -> {"right_wrist", "rightWrist"}
    [] p = "nose"  -> {"nose"}

\* the keypoints of kps accepted for pusher p: non-null, under one of p's
\* names, with both coordinates and a confidence of at least poseConfidence
CanonAccepted(p, kps) ==
  { i \in 1..Len(kps) :
      /\ kps[i] # None
      /\ KpName(Val(kps[i])) \in CanonicalNames(p)
      /\ ValidCoords(Val(kps[i]))
      /\ KpConf(Val(kps[i])) >= poseConfidence }

MaxOf(S) == CHOOSE i \in S : \A j \in S : j <= i

\* C12: a tick that finds the slot null or empty, or its first pose null or
\* without keypoints, leaves all three pushers exactly where they were,
\* wherever earlier ticks had put them, and in sketch.js and part_000 it does
\* not throw
C12_NoPoseNoUpdate ==
  [][ (event' = "draw" /\ FirstKeypoints(poses) = << >>) =>
        /\ pushers' = pushers
        /\ variant \in Guarded => ~tickThrew' ]_vars

\* a tick without a usable pose has run and a pusher is still where an
\* earlier tick had put it, away from the origin
C12_Witness ==
  /\ event = "draw" /\ ~tickThrew
  /\ FirstKeypoints(poses) = << >>
  /\ pushers # None
  /\ Val(pushers).left.x # Some(0)

\* C13: in a tick of sketch.js or part_000 a pusher with no accepted keypoint
\* under its own names keeps its position, whatever other keypoints the pose
\* holds, and a pusher with one is placed at the mirrored coordinate of one
\* of them
C13_PerNameFrame ==
  [][ (variant \in Guarded /\ event' = "draw" /\ pushers # None) =>
        \A p \in PusherNames :
          LET kps == FirstKeypoints(poses)
              acc == CanonAccepted(p, kps) IN
            /\ acc = {} => Val(pushers')[p] = Val(pushers)[p]
            /\ acc # {} =>
                 \E i \in acc :
                   /\ Val(pushers')[p].x = Mirror(width, KpX(Val(kps[i])))
                   /\ Val(pushers')[p].y = KpY(Val(kps[i])) ]_vars

\* a tick has moved the left-hand pusher for a pose that also holds a keypoint
\* with an unrecognised name, and the other two pushers are where they were
\* created
C13_Witness ==
  /\ event = "draw" /\ variant \in Guarded /\ pushers # None
  /\ FirstKeypoints(poses) =
       << Some(KpA("left_wrist", 100, 200, 90)), Some(KpA("left_elbow", 10, 10, 99)) >>
  /\ Val(pushers).left.x = Some(width - 100)
  /\ Val(pushers).right = PusherBody(pusherRadiusHand)
  /\ Val(pushers).nose = PusherBody(pusherRadiusNose)

\* C14: after a tick of sketch.js or part_000 a pusher with accepted
\* keypoints sits at the mirrored coordinate of the last of them in iteration
\* order, under whichever spelling of its name; keypoints rejected by the
\* confidence or coordinate filter do not count
C14_LastWriteWins ==
  (variant \in Guarded /\ event = "draw" /\ pushers # None) =>
    \A p \in PusherNames :
      LET kps == FirstKeypoints(poses)
          acc == CanonAccepted(p, kps) IN
        acc # {} =>
          /\ Val(pushers)[p].x = Mirror(width, KpX(Val(kps[MaxOf(acc)])))
          /\ Val(pushers)[p].y = KpY(Val(kps[MaxOf(acc)]))

\* a tick has run on a pose that names the left wrist under both spellings
\* and the pusher is at the coordinate of the second
C14_Witness ==
  /\ event = "draw" /\ variant \in Guarded /\ pushers # None
  /\ FirstKeypoints(poses) = << Some(KpA("left_wrist", 100, 200, 90)), Some(KpLeftAlias) >>
  /\ Val(pushers).left.x = Some(width - 400)
  /\ Val(pushers).left.y = Some(300)

\* which edge bounceOffEdges corrects along one axis for a body the solver
\* left at c with radius r in a viewport of the given extent: the low edge
\* (left, top) when the circle crosses it, else the high edge (right, bottom)
\* when the circle crosses that, else none
CorrectedEdge(c, r, extent) ==
  IF c - r < 0 THEN "lo" ELSE IF c + r > extent THEN "hi" ELSE "none"

CrossesEdge(c, r, extent) == c - r < 0 \/ c + r > extent

\* C15: after the containment correction of a tick, a body whose circle
\* crossed the left edge with negative x-velocity has a positive x-velocity,
\* and after a correction at any edge the velocity component perpendicular to
\* the corrected edge does not point out of the viewport through that edge
\* (and points inward when it pointed outward before)
C15_ReflectionDirection ==
  event = "draw" =>
    \A i \in 1..Len(sprites) :
      LET m == preBounce[i]
          s == sprites[i]
          ex == CorrectedEdge(m.x, m.r, width)
          ey == CorrectedEdge(m.y, m.r, height) IN
        /\ (m.x - m.r < 0 /\ m.vx < 0) => s.vx > 0
        /\ ex = "lo" => s.vx >= 0
        /\ ex = "hi" => (s.vx <= 0 /\ (m.vx > 0 => s.vx < 0))
        /\ ey = "lo" => (s.vy >= 0 /\ (m.vy < 0 => s.vy > 0))
        /\ ey = "hi" => (s.vy <= 0 /\ (m.vy > 0 => s.vy < 0))

\* a tick has turned round a body that crossed the left edge moving left and
\* the bottom edge moving down
C15_Witness ==
  /\ event = "draw"
  /\ \E i \in 1..Len(sprites) :
       /\ preBounce[i].x - preBounce[i].r < 0 /\ preBounce[i].vx < 0
       /\ preBounce[i].y + preBounce[i].r > height /\ preBounce[i].vy > 0
       /\ sprites[i].vx > 0 /\ sprites[i].vy < 0

\* C16 as stated: whenever a body's circle crosses a viewport edge the tick
\* leaves the velocity component perpendicular to that edge at the negation
\* of its pre-correction value, whatever that value was, and the parallel
\* component unchanged unless an edge of the other axis is crossed too
C16_AsStated ==
  event = "draw" =>
    \A i \in 1..Len(sprites) :
      LET m == preBounce[i]
          s == sprites[i]
          cx == CrossesEdge(m.x, m.r, width)
          cy == CrossesEdge(m.y, m.r, height) IN
        /\ cx => s.vx = -m.vx
        /\ cy => s.vy = -m.vy
        /\ (cx /\ ~cy) => s.vy = m.vy
        /\ (cy /\ ~cx) => s.vx = m.vx

\* C16 as amended: a correction at the left or top edge sets the perpendicular
\* velocity component to its absolute value, a correction at the right or
\* bottom edge to minus its absolute value (so the component is negated when it
\* pointed out of the viewport and kept when it already pointed inward, its
\* magnitude never changing), and an axis without a correction keeps its
\* component
C16_InwardFlip ==
  event = "draw" =>
    \A i \in 1..Len(sprites) :
      LET m == preBounce[i]
          s == sprites[i]
          ex == CorrectedEdge(m.x, m.r, width)
          ey == CorrectedEdge(m.y, m.r, height) IN
        /\ s.vx = (IF ex = "lo" THEN Abs(m.vx) ELSE IF ex = "hi" THEN -Abs(m.vx) ELSE m.vx)
        /\ s.vy = (IF ey = "lo" THEN Abs(m.vy) ELSE IF ey = "hi" THEN -Abs(m.vy) ELSE m.vy)

\* a tick has corrected a body that crossed the left edge while already
\* moving right, and the body still moves right at the same speed
C16_Witness ==
  /\ event = "draw"
  /\ \E i \in 1..Len(sprites) :
       /\ preBounce[i].x - preBounce[i].r < 0
       /\ preBounce[i].vx > 0
       /\ sprites[i].x = sprites[i].r
       /\ sprites[i].vx = preBounce[i].vx

\* C17 as stated: once setup of sketch.js or part_000 has built the world the
\* image pool holds no image whose load failed (in part_000 it is the list of
\* the images that loaded), and no floating body carries such an image
C17_AsStated ==
  (variant \in Guarded /\ setupPc = "done") =>
    /\ \A k \in 1..Len(spriteImgs) : spriteImgs[k].ok
    /\ \A i \in 1..Len(sprites) : sprites[i].img.ok
    /\ variant = "part_000" => spriteImgs = loaded

\* C18: no run of startPose ends in the compute-backend negotiation, whatever
\* the tf global is and whatever its two backends do; the negotiation tries
\* webgl first, and cpu only as its second attempt after webgl has thrown
C18_NegotiationNeverFatal ==
  \A i \in 1..Len(starts) :
    LET log == tfLog[i] IN
      /\ starts[i] # "failed_tf"
      /\ Len(log) <= 2
      /\ Len(log) >= 1 => log[1][1] = "webgl"
      /\ \A j \in 1..Len(log) :
           log[j][1] = "cpu" => (j = 2 /\ log[1] = << "webgl", "throws" >>)
      /\ (Len(log) = 1 /\ starts[i] # "tf") => log[1][2] # "throws"

\* both backend attempts threw and the same run of startPose went on to
\* register a result callback
C18_Witness ==
  \E i \in 1..Len(starts) :
    /\ tfLog[i] = << << "webgl", "throws" >>, << "cpu", "throws" >> >>
    /\ starts[i] = "done"
    /\ registered.A + registered.B > 0

\* every run of startPose so far is waiting for play() or had it rejected
\* (none exists when the camera never signalled)
NoRunPastPlay ==
  \A i \in 1..Len(starts) : starts[i] \in {"tf", "play", "failed_play"}

\* C19: as long as the camera has not signalled or every run of startPose has
\* ended in a rejected play(), no result callback is registered, the slot is
\* empty and the pushers are where they were created; ticks go on, and each
\* tick leaves every floating body where the containment correction puts the
\* body the solver step produced
C19_CaptureFailure ==
  /\ NoRunPastPlay =>
       /\ registered = [A |-> 0, B |-> 0]
       /\ poses = Some(<< >>)
       /\ pushers \in {None, NewPushers}
       /\ ~tickThrew
       /\ CanvasExists => ENABLED Draw
  /\ event = "draw" =>
       /\ Len(sprites) = Len(preBounce)
       /\ \A i \in 1..Len(sprites) :
            sprites[i] = bounceOffEdges(preBounce[i], width, height)

\* play() was rejected and a later tick has moved and corrected a floating
\* body
C19_Witness ==
  /\ \E i \in 1..Len(starts) : starts[i] = "failed_play"
  /\ NoRunPastPlay
  /\ event = "draw"
  /\ Len(sprites) > 0
  /\ sprites # preBounce

\* the result is a list of pose objects, whatever their keypoints are
ListOfPoses(res) ==
  IsSome(res) /\ \A i \in 1..Len(Val(res)) : Val(res)[i] # None

\* C20 as stated: in sketch.js a result that is a list of pose objects, some
\* of whose keypoints are null or lack their coordinate fields, makes neither
\* the detection callback nor a tick throw
C20_AsStated ==
  (variant = "sketch" /\ ListOfPoses(lastResult.res)) => (~cbThrew /\ ~tickThrew)

\* C21 as stated: the radius of every floating body is at least 20
C21_AsStated ==
  \A i \in 1..Len(sprites) : sprites[i].r >= MinSpriteDim

\* C21 as amended: the radius of every floating body is at least 10, half of
\* the 20 units below which neither scaled image dimension is taken, and it is
\* the radius the constructor computed from the body's image
C21_MinRadius ==
  \A i \in 1..Len(sprites) :
    /\ 2 * sprites[i].r >= MinSpriteDim
    /\ \E scale \in ScaleSample : sprites[i].r = SpriteRadius(sprites[i].img, scale)

\* a body whose scaled image is smaller than 20 units either way has radius 10
C21_Witness ==
  \E i \in 1..Len(sprites) :
    /\ (sprites[i].img.width * spriteScaleMin) \div 100 < MinSpriteDim
    /\ (sprites[i].img.height * spriteScaleMin) \div 100 < MinSpriteDim
    /\ 2 * sprites[i].r = MinSpriteDim

\* C22 as stated: in every state in which a tick can execute the three
\* pushers exist
C22_AsStated ==
  (CanvasExists /\ ~tickThrew) => pushers # None

\* C22 as amended: the three pushers (left-hand, right-hand, nose) exist
\* exactly from the moment setup has created them, which in part_000 is after
\* ticks have begun; from then on none is created again, removed or replaced
\* (each keeps its radius) and only ticks change their positions
C22_ThreePushers ==
  /\ [](pushers # None <=> setupPc = "done")
  /\ [](pushers # None => DOMAIN Val(pushers) = PusherNames)
  /\ [][ pushers # None =>
           /\ pushers' # None
           /\ \A p \in PusherNames : Val(pushers')[p].r = Val(pushers)[p].r
           /\ pushers' # pushers => event' = "draw" ]_vars

\* a tick has moved a pusher away from where setup created it
C22_Witness ==
  /\ event = "draw" /\ pushers # None
  /\ Val(pushers).left # PusherBody(pusherRadiusHand)
  /\ Val(pushers).left.r = pusherRadiusHand
  /\ Val(pushers).nose = PusherBody(pusherRadiusNose)

\* C23: a step that changes the size of an existing canvas sets the capture
\* frame, if there is one, to the same size and changes nothing else: no
\* floating body, no pusher, not the pose slot, the asset base, the probes made,
\* the pose backend, the runs of startPose or the registered callbacks
C23_ResizeFrame ==
  [][ (CanvasExists /\ << width', height' >> # << width, height >>) =>
        /\ video' = (IF video = None THEN None ELSE Some(<< width', height' >>))
        /\ UNCHANGED << sprites, pushers, poses, ASSET_BASE, probeLog, loaded,
                        spriteImgs, poseSystem, starts, attempts, tfLog, registered,
                        metaFired, setupPc, setupIdx, tickThrew >> ]_vars

\* the viewport was narrowed after a tick and a floating body has been left
\* where it was, outside the new viewport, with a detection result in the slot
C23_Witness ==
  /\ event = "other" /\ setupPc = "done"
  /\ width = 320 /\ video = Some(<< 320, 240 >>)
  /\ \E i \in 1..Len(sprites) : sprites[i].x = 640
  /\ poses # Some(<< >>)

\* C24 as stated: in sketch.js and part_000 the pushers the solver step of a
\* tick works with are already at the positions the mapper derives from the
\* slot; draw steps the solver first, so these are the pushers of the state
\* the tick starts from
C24_AsStated ==
  [][ (variant \in Guarded /\ event' = "draw" /\ pushers # None) =>
        pushers = updatePushersFromPose(variant, poses, width, pushers).pushers ]_vars

\* C25 as stated: however many metadata-ready signals the camera gives, each
\* backend has at most one result callback registered
C25_AsStated ==
  registered.A <= 1 /\ registered.B <= 1

\* the result cut down to its first pose
FirstPoseOf(res) == Some(<< Val(res)[1] >>)

\* C26 as stated: in sketch.js and part_000 the pushers a tick leaves after a
\* result that is a non-empty list of pose objects are those it would leave
\* had the callback been handed the first pose of that result alone
C26_AsStated ==
  [][ (variant \in Guarded /\ event' = "draw" /\ pushers # None
       /\ lastResult.backend \in {"A", "B"}
       /\ ListOfPoses(lastResult.res) /\ Len(Val(lastResult.res)) >= 1) =>
        pushers' =
          updatePushersFromPose(variant,
            SlotAfter(variant, lastResult.backend, poses, FirstPoseOf(lastResult.res)),
            width, pushers).pushers ]_vars

\* C27: a step that changes the pose slot is a result callback and changes no
\* pusher, no floating body and not the body list; once setup has finished,
\* pushers and floating bodies are changed by ticks only
C27_WriteOwnership ==
  [][ /\ poses' # poses =>
           (event' = "other" /\ nDelivered' = nDelivered + 1
            /\ pushers' = pushers /\ sprites' = sprites)
      /\ nDelivered' > nDelivered => (pushers' = pushers /\ sprites' = sprites)
      /\ (setupPc = "done" /\ pushers' # pushers) => event' = "draw"
      /\ (setupPc = "done" /\ sprites' # sprites) => event' = "draw" ]_vars

\* a result callback has stored a pose with floating bodies in the world, and
\* the pushers are still where setup created them
C27_Witness ==
  /\ event = "other" /\ nDelivered > 0
  /\ FirstKeypoints(poses) # << >>
  /\ pushers = NewPushers
  /\ Len(sprites) > 0

\* a result of backend B in which every keypoint carries part, position.x,
\* position.y and score
WellFormedB(res) ==
  /\ IsSome(res)
  /\ \A i \in 1..Len(Val(res)) :
       /\ Val(res)[i] # None
       /\ Val(Val(res)[i]).pose # None
       /\ Val(Val(Val(res)[i]).pose).keypoints # None
       /\ \A j \in 1..Len(RawKpsB(Val(res)[i])) :
            LET k == RawKpsB(Val(res)[i])[j] IN
              /\ k # None
              /\ IsSome(Val(k).part) /\ IsSome(Val(k).score)
              /\ Val(k).position # None
              /\ IsSome(Val(Val(k).position).x) /\ IsSome(Val(Val(k).position).y)

\* the name backend A gives the point backend B calls part
SnakeName(part) ==
  IF part = "leftWrist" THEN "left_wrist"
  ELSE IF part = "rightWrist" THEN "right_wrist"
  ELSE IF part = "leftElbow" THEN "left_elbow" ELSE part

\* the backend-A result carrying the points of a well-formed backend-B result
AsBackendA(res) ==
  Some([i \in 1..Len(Val(res)) |->
    LET kps == RawKpsB(Val(res)[i]) IN
      Some(PoseA([j \in 1..Len(kps) |->
        LET k == Val(kps[j]) IN
          Some(KpA(SnakeName(Val(k.part)), Val(Val(k.position).x),
                   Val(Val(k.position).y), Val(k.score)))]))])

\* C28: in sketch.js and part_000 the pushers a tick leaves for a well-formed
\* backend-B result are those the same tick would leave had backend A
\* delivered the same points under its own field and point names
C28_FormatEquivalence ==
  [][ (variant \in Guarded /\ event' = "draw" /\ pushers # None
       /\ lastResult.backend = "B" /\ WellFormedB(lastResult.res)) =>
        pushers' =
          updatePushersFromPose(variant, CallbackA(AsBackendA(lastResult.res)),
                                width, pushers).pushers ]_vars

\* a tick has placed both hand pushers from a backend-B result naming
\* leftWrist and rightWrist
C28_Witness ==
  /\ event = "draw" /\ variant \in Guarded /\ pushers # None
  /\ lastResult =
       [backend |-> "B",
        res |-> OnePose(PoseB(<< Some(KpB("leftWrist", 50, 60, 80)),
                                Some(KpB("rightWrist", 300, 50, poseConfidence)) >>))]
  /\ WellFormedB(lastResult.res)
  /\ Val(pushers).left.x = Some(width - 50) /\ Val(pushers).left.y = Some(60)
  /\ Val(pushers).right.x = Some(width - 300) /\ Val(pushers).right.y = Some(50)

\* C29: a body whose circle crossed a vertical and a horizontal edge in the
\* solver step of a tick leaves the tick's bounceOffEdges with both
\* coordinates clamped and both velocity components turned inward; the x
\* position and x velocity are those the x correction wrote
C29_CornerHandling ==
  event = "draw" =>
    \A i \in 1..Len(sprites) :
      LET m == preBounce[i]
          s == sprites[i]
          ex == CorrectedEdge(m.x, m.r, width)
          ey == CorrectedEdge(m.y, m.r, height) IN
        (ex # "none" /\ ey # "none") =>
          /\ s.x = (IF ex = "lo" THEN m.r ELSE width - m.r)
          /\ s.y = (IF ey = "lo" THEN m.r ELSE height - m.r)
          /\ s.vx = (IF ex = "lo" THEN Abs(m.vx) ELSE -Abs(m.vx))
          /\ s.vy = (IF ey = "lo" THEN Abs(m.vy) ELSE -Abs(m.vy))
          /\ s.r = m.r

\* a tick has brought back a moving body from beyond the right and the top
\* edge, or from beyond the left and the bottom edge
C29_Witness ==
  /\ event = "draw"
  /\ \E i \in 1..Len(sprites) :
       LET m == preBounce[i]
           s == sprites[i] IN
         /\ m.vx # 0 /\ m.vy # 0
         /\ \/ /\ m.x + m.r > width /\ m.y - m.r < 0
               /\ s.x = width - s.r /\ s.y = s.r
               /\ s.vx < 0 /\ s.vy > 0
            \/ /\ m.x - m.r < 0 /\ m.y + m.r > height
               /\ s.x = s.r /\ s.y = height - s.r
               /\ s.vx > 0 /\ s.vy < 0

\* C30: in part_000, whose setup is suspended while the assets load, no tick
\* throws, and whenever a detection callback is registered or the pose slot
\* holds a pose all three pushers exist
C30_AsyncSetupSafety ==
  variant = "part_000" =>
    /\ ~tickThrew
    /\ (registered.A + registered.B > 0 \/ (IsSome(poses) /\ Len(Val(poses)) > 0)) =>
         (pushers # None /\ DOMAIN Val(pushers) = PusherNames)

\* part_000 has run a tick on a slot holding keypoints and the tick has moved
\* a pusher
C30_Witness ==
  /\ variant = "part_000" /\ event = "draw"
  /\ FirstKeypoints(poses) # << >>
  /\ pushers # None /\ pushers # NewPushers
  /\ ~tickThrew

\* the runs of startPose that have reached position pc
RunsAt(pc) == { i \in 1..Len(starts) : starts[i] = pc }

\* C31: in sketch.js and part_000 with ml5.bodyPose a function, a run of
\* startPose whose bodyPose constructor, promise or detectStart failed has
\* tested and called backend A only, has not tested or called ml5.poseNet,
\* and has registered no callback (the registered ones belong to the runs that
\* finished); poseSystem is "bodyPose"
C31_NoFallback ==
  (variant \in Guarded /\ ml5.bodyPose) =>
    /\ registered.B = 0
    /\ registered.A = Cardinality(RunsAt("done"))
    /\ \A i \in RunsAt("failed_construct") :
         /\ attempts[i] = <<"testA", "callA">>
         /\ poseSystem = "bodyPose"

\* both backends are offered, the only run of startPose failed in backend A,
\* and a tick has run since with no callback registered
C31_Witness ==
  /\ variant \in Guarded /\ ml5.bodyPose /\ ml5.poseNet
  /\ Len(starts) = 1 /\ starts[1] = "failed_construct"
  /\ attempts[1] = <<"testA", "callA">>
  /\ registered = [A |-> 0, B |-> 0]
  /\ poseSystem = "bodyPose"
  /\ event = "draw"


====
